---- MODULE Spec2Model ----
(***************************************************************************)
(* Window-embedding subsystem of src/native/window-manager.cc.             *)
(*                                                                         *)
(* The host calls the exported operations one at a time on one thread.     *)
(* Every operation is a sequence of platform calls; the foreign process    *)
(* that owns a window can destroy it between any two of them.  The         *)
(* windowing system is modelled by its documented behaviour: a table of    *)
(* windows, a table of processes, and the calling thread's last-error      *)
(* code.                                                                   *)
(***************************************************************************)
EXTENDS Integers, Sequences, FiniteSets, TLC

\* ------------------------------------------------------------------ bounds
NumWindows == 2      \* window handles 1..NumWindows
NumProcs == 2        \* process ids 1..NumProcs
MaxCoord == 1        \* coordinates are 0 or MaxCoord
MaxSize == 2         \* widths and heights are 1 or MaxSize

\* ------------------------------------------------------------- constants
ERROR_INVALID_PARAMETER == 87

NULL == 0
Hwnds == 1..NumWindows
Container == NumWindows + 1      \* the host's container window, always live
NoWindow == NumWindows + 2       \* a number that is no window's handle
Target == NumWindows             \* the window the host manages
HandleArgs == {Target, NULL}
ParentArgs == {NULL, Container, NoWindow}
Pids == 1..NumProcs
NoPid == NumProcs + 1            \* a process id no process has
Coords == {0, MaxCoord}
Sizes == {1, MaxSize}

\* Last-error codes the platform leaves: access denied, invalid parameter,
\* invalid window handle, file not found.
ErrorCodes == {2, 5, ERROR_INVALID_PARAMETER, 1400}

\* Style bits (GWL_STYLE).  WS_CAPTION is the two bits WS_BORDER | WS_DLGFRAME.
WS_CAPTION == {"BORDER", "DLGFRAME"}
StyleBits == {"POPUP", "CHILD", "VISIBLE", "BORDER", "DLGFRAME", "SYSMENU",
              "THICKFRAME", "MINIMIZEBOX", "MAXIMIZEBOX"}
\* Extended style bits (GWL_EXSTYLE).
ExStyleBits == {"TOOLWINDOW", "DLGMODALFRAME", "WINDOWEDGE", "CLIENTEDGE", "STATICEDGE"}

SystemClasses == {"Shell_TrayWnd", "Button", "Progman", "Shell_SecondaryTrayWnd"}

VARIABLES
  win,        \* window table: handle -> window record
  proc,       \* process table: pid -> [alive]
  lastError,  \* the calling thread's last-error code
  pc,         \* position of the host thread inside the current operation
  op,         \* the current (or last completed) call: arguments and locals
  log,        \* platform calls issued by the current (or last completed) call
  result,     \* the object the last completed call returned
  held,       \* process/thread handles the current call obtained and has not closed
  prev        \* summary of the call completed before the current one

vars == <<win, proc, lastError, pc, op, log, result, held, prev>>

\* ------------------------------------------------------------ result objects
NoResult == [threw |-> FALSE, success |-> "absent", error |-> <<>>, hwnd |-> NULL,
             title |-> "", processName |-> "", processId |-> NULL, processHandle |-> FALSE]

\* Napi::TypeError(...).ThrowAsJavaScriptException(); return Napi::Object::New(env)
Thrown == [NoResult EXCEPT !.threw = TRUE]

Failure(msg) == [NoResult EXCEPT !.success = "false", !.error = msg]

Success == [NoResult EXCEPT !.success = "true"]

FormatMessageA(e) ==
  CASE e = 2 -> "The system cannot find the file specified."
    [] e = 5 -> "Access is denied."
    [] e = ERROR_INVALID_PARAMETER -> "The parameter is incorrect."
    [] e = 1400 -> "Invalid window handle."
    [] OTHER -> "Error"

GetLastErrorString(e) == IF e = 0 THEN "Unknown error" ELSE FormatMessageA(e)

\* ------------------------------------------------------- windowing system
IsWindow(w, h) == h \in DOMAIN w /\ w[h].live

\* A window handle a platform call accepts as a window: a live window of the
\* table or the host's container.
IsParentWindow(w, p) == p = Container \/ IsWindow(w, p)

IsWindowVisible(w, h) == IsWindow(w, h) /\ "VISIBLE" \in w[h].style

\* GetParent: the parent of a child window, the owner of a popup, else none.
GetParent(w, h) ==
  IF ~IsWindow(w, h) THEN NULL
  ELSE IF "CHILD" \in w[h].style THEN w[h].parent
  ELSE IF "POPUP" \in w[h].style THEN w[h].owner
  ELSE NULL

\* ShowWindow(hwnd, SW_SHOW / SW_HIDE): sets or clears the visible bit.
ShowWindowEffect(w, h, show) ==
  IF ~IsWindow(w, h) THEN w
  ELSE [w EXCEPT ![h].style = IF show THEN @ \cup {"VISIBLE"} ELSE @ \ {"VISIBLE"}]

\* SetParent(hwnd, p) when it succeeds.
SetParentEffect(w, h, p) == [w EXCEPT ![h].parent = p]

\* SetWindowLongW(hwnd, GWL_STYLE, s) / (hwnd, GWL_EXSTYLE, e) when they succeed.
SetStyleEffect(w, h, s) == [w EXCEPT ![h].style = s]
SetExStyleEffect(w, h, e) == [w EXCEPT ![h].exStyle = e]

\* SetWindowPos(hwnd, after, x, y, cx, cy, flags) when it succeeds.
\* rect is <<left, top, right, bottom>>.
SetWindowPosEffect(w, h, x, y, cx, cy, flags) ==
  LET r == w[h].rect
      left == IF "NOMOVE" \in flags THEN r[1] ELSE x
      top == IF "NOMOVE" \in flags THEN r[2] ELSE y
      width == IF "NOSIZE" \in flags THEN r[3] - r[1] ELSE cx
      height == IF "NOSIZE" \in flags THEN r[4] - r[2] ELSE cy
  IN [w EXCEPT ![h].rect = <<left, top, left + width, top + height>>,
               ![h].style = IF "SHOWWINDOW" \in flags THEN @ \cup {"VISIBLE"} ELSE @]


\* Platform calls as the code sees them: the window table and last-error code
\* they leave, and the value they return.  env is the platform's own verdict
\* for a call on a live window: 0 to carry it out, else the error it fails with.
SetParent(w, le, h, p, env) ==
  IF ~IsWindow(w, h) \/ (p # NULL /\ ~IsParentWindow(w, p))
    THEN [win |-> w, err |-> 1400, ret |-> NULL, ok |-> FALSE]
  ELSE IF env # 0
    THEN [win |-> w, err |-> env, ret |-> NULL, ok |-> FALSE]
  ELSE [win |-> SetParentEffect(w, h, p), err |-> le, ret |-> w[h].parent, ok |-> TRUE]

GetWindowLongW(w, le, h, index) ==
  IF ~IsWindow(w, h) THEN [err |-> 1400, ret |-> {}]
  ELSE [err |-> le, ret |-> IF index = "GWL_STYLE" THEN w[h].style ELSE w[h].exStyle]

SetWindowLongW(w, le, h, index, bits, env) ==
  IF ~IsWindow(w, h) THEN [win |-> w, err |-> 1400, ok |-> FALSE]
  ELSE IF env # 0 THEN [win |-> w, err |-> env, ok |-> FALSE]
  ELSE [win |-> IF index = "GWL_STYLE" THEN SetStyleEffect(w, h, bits)
                ELSE SetExStyleEffect(w, h, bits),
        err |-> le, ok |-> TRUE]

SetWindowPos(w, le, h, x, y, cx, cy, flags, env) ==
  IF ~IsWindow(w, h) THEN [win |-> w, err |-> 1400, ok |-> FALSE]
  ELSE IF env # 0 THEN [win |-> w, err |-> env, ok |-> FALSE]
  ELSE [win |-> SetWindowPosEffect(w, h, x, y, cx, cy, flags), err |-> le, ok |-> TRUE]

\* ShowWindow returns whether the window was visible before the call.
ShowWindow(w, le, h, show) ==
  IF ~IsWindow(w, h) THEN [win |-> w, err |-> 1400, ret |-> FALSE]
  ELSE [win |-> ShowWindowEffect(w, h, show), err |-> le, ret |-> IsWindowVisible(w, h)]

GetWindowRect(w, le, h, env) ==
  IF ~IsWindow(w, h) THEN [err |-> 1400, ok |-> FALSE, rect |-> <<0, 0, 0, 0>>]
  ELSE IF env # 0 THEN [err |-> env, ok |-> FALSE, rect |-> <<0, 0, 0, 0>>]
  ELSE [err |-> le, ok |-> TRUE, rect |-> w[h].rect]

\* ------------------------------------------------------------ call records
NewOp(name) ==
  [name |-> name, hwnd |-> NULL, parent |-> NULL, x |-> 0, y |-> 0, w |-> 0, h |-> 0,
   pid |-> NULL, show |-> FALSE, exe |-> "",
   style |-> {}, exStyle |-> {}, oldParent |-> NULL,
   before |-> win, beforeError |-> lastError, beforeProc |-> proc, coop |-> TRUE,
   reparentErr |-> -1, styleErr |-> -1, posErr |-> -1, openErr |-> -1, rectErr |-> -1,
   touched |-> FALSE]

NoPrev == [name |-> "none", hwnd |-> NULL, parent |-> NULL, success |-> "absent",
           coop |-> TRUE, before |-> <<>>]

\* What is remembered of a call once the next one starts.
Summary == [name |-> op.name, hwnd |-> op.hwnd, parent |-> op.parent,
            success |-> result.success, coop |-> op.coop /\ ~op.touched, before |-> op.before]

\* Consecutive calls some property relates: the earlier one is remembered.
Related == {<<"embed", "detach">>, <<"embed", "embed">>, <<"show", "move">>, <<"show", "resize">>}

\* Entry of the exported function name: the previous call has returned.
Enter(name) ==
  /\ pc = "idle"
  /\ prev' = IF <<op.name, name>> \in Related THEN Summary ELSE NoPrev

Return(r) ==
  /\ result' = r
  /\ pc' = "idle"

Goto(label) ==
  /\ pc' = label
  /\ result' = NoResult

Uncooperative(o) == [o EXCEPT !.coop = FALSE]

\* -------------------------------------------------------------- EmbedWindow
\* The style EmbedWindow writes for a window whose style was originalStyle.
EmbedStyle(originalStyle) ==
  LET stripped == originalStyle \ {"THICKFRAME", "MINIMIZEBOX", "MAXIMIZEBOX", "SYSMENU", "POPUP"}
      child == stripped \cup {"CHILD", "VISIBLE"}
  IN IF originalStyle \cap WS_CAPTION # {}
       THEN child \cup WS_CAPTION \cup {"BORDER"}
       ELSE child \cup {"BORDER"}

EmbedExStyle(originalExStyle) ==
  originalExStyle \ {"DLGMODALFRAME", "WINDOWEDGE", "CLIENTEDGE", "STATICEDGE"}

EmbedCallUnchecked(argsOk, h, p, x, y, w, ht) ==
  /\ Enter("embed")
  /\ held' = {}
  /\ UNCHANGED <<win, proc, lastError>>
  /\ op' = [NewOp("embed") EXCEPT !.hwnd = h, !.parent = p, !.x = x, !.y = y, !.w = w, !.h = ht]
  /\ log' = <<>>
  /\ Goto("embed_show")

\* Argument check and the first liveness check.
EmbedCall(argsOk, h, p, x, y, w, ht) ==
  /\ Enter("embed")
  /\ held' = {}
  /\ UNCHANGED <<win, proc, lastError>>
  /\ IF ~argsOk
       THEN /\ op' = NewOp("embed")
            /\ log' = <<>>
            /\ Return(Thrown)
       ELSE LET o == [NewOp("embed") EXCEPT !.hwnd = h, !.parent = p, !.x = x, !.y = y,
                                            !.w = w, !.h = ht]
            IN /\ log' = <<"IsWindow">>
               /\ IF ~IsWindow(win, h)
                    THEN /\ op' = Uncooperative(o)
                         /\ Return(Failure(<<"Invalid window handle">>))
                    ELSE /\ op' = o
                         /\ Goto("embed_show")

\* ShowWindow(SW_SHOW), BringWindowToTop, SetForegroundWindow.  The last two
\* are best effort: fg is the last-error code they leave when they fail.
EmbedShow(fg) ==
  /\ pc = "embed_show"
  /\ LET r == ShowWindow(win, lastError, op.hwnd, TRUE)
     IN /\ win' = r.win
        /\ lastError' = IF fg # 0 THEN fg ELSE r.err
        /\ op' = IF fg # 0 \/ ~IsWindow(win, op.hwnd) THEN Uncooperative(op) ELSE op
  /\ log' = log \o <<"ShowWindow", "BringWindowToTop", "SetForegroundWindow">>
  /\ Goto("embed_setparent")
  /\ UNCHANGED <<proc, held, prev>>

SetParentFailureGeneric(error) ==
  Failure(<<"Failed to set parent: ", GetLastErrorString(error)>>)

\* The result of a reparent that left error as the last-error code.
SetParentFailure(error) ==
  IF error = ERROR_INVALID_PARAMETER
    THEN Failure(<<"Application refuses window embedding (security restriction)">>)
    ELSE Failure(<<"Failed to set parent: ", GetLastErrorString(error)>>)

EmbedSetParentUnchecked(env) ==
  /\ pc = "embed_setparent"
  /\ LET r == SetParent(win, lastError, op.hwnd, op.parent, env)
     IN /\ win' = r.win
        /\ lastError' = r.err
        /\ op' = [(IF r.ok THEN op ELSE Uncooperative(op)) EXCEPT
                    !.oldParent = r.ret, !.reparentErr = IF r.ok THEN 0 ELSE r.err]
        /\ Goto("embed_check1")
  /\ log' = Append(log, "SetParent")
  /\ UNCHANGED <<proc, held, prev>>

EmbedSetParent(env) ==
  /\ pc = "embed_setparent"
  /\ LET r == SetParent(win, lastError, op.hwnd, op.parent, env)
         oldParent == r.ret
     IN /\ win' = r.win
        /\ lastError' = r.err
        /\ op' = [(IF r.ok THEN op ELSE Uncooperative(op)) EXCEPT
                    !.oldParent = oldParent, !.reparentErr = IF r.ok THEN 0 ELSE r.err]
        /\ IF oldParent = NULL /\ r.err # 0
             THEN Return(SetParentFailure(r.err))
             ELSE Goto("embed_check1")
  /\ log' = Append(log, "SetParent")
  /\ UNCHANGED <<proc, held, prev>>

EmbedCheck1Skipped ==
  /\ pc = "embed_check1"
  /\ log' = log
  /\ Goto("embed_getstyles")
  /\ UNCHANGED <<win, proc, lastError, op, held, prev>>

EmbedCheck1 ==
  /\ pc = "embed_check1"
  /\ log' = Append(log, "IsWindow")
  /\ IF ~IsWindow(win, op.hwnd)
       THEN Return(Failure(<<"Window closed immediately after embedding (app may not support embedding)">>))
       ELSE Goto("embed_getstyles")
  /\ UNCHANGED <<win, proc, lastError, op, held, prev>>

EmbedGetStyles ==
  /\ pc = "embed_getstyles"
  /\ LET s == GetWindowLongW(win, lastError, op.hwnd, "GWL_STYLE")
         e == GetWindowLongW(win, s.err, op.hwnd, "GWL_EXSTYLE")
     IN /\ op' = [op EXCEPT !.style = s.ret, !.exStyle = e.ret]
        /\ lastError' = e.err
  /\ log' = log \o <<"GetWindowLongW", "GetWindowLongW">>
  /\ Goto("embed_check2")
  /\ UNCHANGED <<win, proc, held, prev>>

EmbedCheck2SameMessage ==
  /\ pc = "embed_check2"
  /\ log' = Append(log, "IsWindow")
  /\ IF ~IsWindow(win, op.hwnd)
       THEN Return(Failure(<<"Window closed immediately after embedding (app may not support embedding)">>))
       ELSE Goto("embed_setstyles")
  /\ UNCHANGED <<win, proc, lastError, op, held, prev>>

EmbedCheck2 ==
  /\ pc = "embed_check2"
  /\ log' = Append(log, "IsWindow")
  /\ IF ~IsWindow(win, op.hwnd)
       THEN Return(Failure(<<"Window closed immediately after SetParent (app security restriction)">>))
       ELSE Goto("embed_setstyles")
  /\ UNCHANGED <<win, proc, lastError, op, held, prev>>

\* Compute and apply the new styles; the return values are not looked at.
EmbedSetStyles(env) ==
  /\ pc = "embed_setstyles"
  /\ LET s == SetWindowLongW(win, lastError, op.hwnd, "GWL_STYLE", EmbedStyle(op.style), env)
         e == SetWindowLongW(s.win, s.err, op.hwnd, "GWL_EXSTYLE", EmbedExStyle(op.exStyle), env)
     IN /\ win' = e.win
        /\ lastError' = e.err
        /\ op' = [(IF s.ok /\ e.ok THEN op ELSE Uncooperative(op)) EXCEPT
                    !.styleErr = IF s.ok /\ e.ok THEN 0 ELSE e.err]
  /\ log' = log \o <<"SetWindowLongW", "SetWindowLongW">>
  /\ Goto("embed_check3")
  /\ UNCHANGED <<proc, held, prev>>

EmbedCheck3 ==
  /\ pc = "embed_check3"
  /\ log' = Append(log, "IsWindow")
  /\ IF ~IsWindow(win, op.hwnd)
       THEN Return(Failure(<<"Window closed after style modification (app may not support embedding)">>))
       ELSE Goto("embed_setpos")
  /\ UNCHANGED <<win, proc, lastError, op, held, prev>>

EmbedSetPos(env) ==
  /\ pc = "embed_setpos"
  /\ LET r == SetWindowPos(win, lastError, op.hwnd, op.x, op.y, op.w, op.h,
                           {"SHOWWINDOW", "FRAMECHANGED", "NOZORDER"}, env)
     IN /\ win' = r.win
        /\ lastError' = r.err
        /\ op' = [(IF r.ok THEN op ELSE Uncooperative(op)) EXCEPT !.posErr = IF r.ok THEN 0 ELSE r.err]
        /\ IF ~r.ok
             THEN Return(Failure(<<"Failed to position window: ", GetLastErrorString(r.err)>>))
             ELSE Goto("embed_check4")
  /\ log' = Append(log, "SetWindowPos")
  /\ UNCHANGED <<proc, held, prev>>

EmbedCheck4 ==
  /\ pc = "embed_check4"
  /\ log' = Append(log, "IsWindow")
  /\ IF ~IsWindow(win, op.hwnd)
       THEN Return(Failure(<<"Window closed during embedding process">>))
       ELSE Goto("embed_repaint")
  /\ UNCHANGED <<win, proc, lastError, op, held, prev>>

\* ShowWindow(SW_SHOW), BringWindowToTop, InvalidateRect, UpdateWindow, RedrawWindow.
EmbedRepaint ==
  /\ pc = "embed_repaint"
  /\ LET r == ShowWindow(win, lastError, op.hwnd, TRUE)
     IN /\ win' = r.win
        /\ lastError' = r.err
        /\ op' = IF IsWindow(win, op.hwnd) THEN op ELSE Uncooperative(op)
  /\ log' = log \o <<"ShowWindow", "BringWindowToTop", "InvalidateRect", "UpdateWindow", "RedrawWindow">>
  /\ Return(Success)
  /\ UNCHANGED <<proc, held, prev>>

\* --------------------------------------------------------- ShowWindowNative
\* showWindow without its liveness check.
ShowCallUnchecked(argsOk, h, show) ==
  /\ Enter("show")
  /\ held' = {}
  /\ UNCHANGED <<win, proc, lastError>>
  /\ op' = [NewOp("show") EXCEPT !.hwnd = h, !.show = show]
  /\ log' = <<>>
  /\ Goto("show_do")

ShowCall(argsOk, h, show) ==
  /\ Enter("show")
  /\ held' = {}
  /\ UNCHANGED <<win, proc, lastError>>
  /\ IF ~argsOk
       THEN /\ op' = NewOp("show")
            /\ log' = <<>>
            /\ Return(Thrown)
       ELSE LET o == [NewOp("show") EXCEPT !.hwnd = h, !.show = show]
            IN /\ log' = <<"IsWindow">>
               /\ IF ~IsWindow(win, h)
                    THEN /\ op' = Uncooperative(o)
                         /\ Return(Failure(<<"Invalid window handle">>))
                    ELSE /\ op' = o
                         /\ Goto("show_do")

\* success is ShowWindow's return value.
ShowDo ==
  /\ pc = "show_do"
  /\ LET r == ShowWindow(win, lastError, op.hwnd, op.show)
     IN /\ win' = r.win
        /\ lastError' = r.err
        /\ op' = IF IsWindow(win, op.hwnd) THEN op ELSE Uncooperative(op)
        /\ IF r.ret
             THEN Return(Success)
             ELSE Return(Failure(<<GetLastErrorString(r.err)>>))
  /\ log' = Append(log, "ShowWindow")
  /\ UNCHANGED <<proc, held, prev>>

\* ------------------------------------------------------------- ResizeWindow
ResizeCall(argsOk, h, x, y, w, ht) ==
  /\ Enter("resize")
  /\ held' = {}
  /\ UNCHANGED <<win, proc, lastError>>
  /\ IF ~argsOk
       THEN /\ op' = NewOp("resize")
            /\ log' = <<>>
            /\ Return(Thrown)
       ELSE LET o == [NewOp("resize") EXCEPT !.hwnd = h, !.x = x, !.y = y, !.w = w, !.h = ht]
            IN /\ log' = <<"IsWindow">>
               /\ IF ~IsWindow(win, h)
                    THEN /\ op' = Uncooperative(o)
                         /\ Return(Failure(<<"Invalid window handle">>))
                    ELSE /\ op' = o
                         /\ Goto("resize_do")

ResizeDo(env) ==
  /\ pc = "resize_do"
  /\ LET r == SetWindowPos(win, lastError, op.hwnd, op.x, op.y, op.w, op.h, {"SHOWWINDOW"}, env)
     IN /\ win' = r.win
        /\ lastError' = r.err
        /\ op' = IF r.ok THEN op ELSE Uncooperative(op)
        /\ IF r.ok
             THEN Return(Success)
             ELSE Return(Failure(<<GetLastErrorString(r.err)>>))
  /\ log' = Append(log, "SetWindowPos")
  /\ UNCHANGED <<proc, held, prev>>

\* --------------------------------------------------------- MoveWindowNative
MoveCall(argsOk, h, x, y) ==
  /\ Enter("move")
  /\ held' = {}
  /\ UNCHANGED <<win, proc, lastError>>
  /\ IF ~argsOk
       THEN /\ op' = NewOp("move")
            /\ log' = <<>>
            /\ Return(Thrown)
       ELSE LET o == [NewOp("move") EXCEPT !.hwnd = h, !.x = x, !.y = y]
            IN /\ log' = <<"IsWindow">>
               /\ IF ~IsWindow(win, h)
                    THEN /\ op' = Uncooperative(o)
                         /\ Return(Failure(<<"Invalid window handle">>))
                    ELSE /\ op' = o
                         /\ Goto("move_getrect")

\* Read the current rectangle; width and height are kept in the call's locals.
MoveGetRect(env) ==
  /\ pc = "move_getrect"
  /\ LET r == GetWindowRect(win, lastError, op.hwnd, env)
     IN /\ lastError' = r.err
        /\ IF ~r.ok
             THEN /\ op' = [Uncooperative(op) EXCEPT !.rectErr = r.err]
                  /\ Return(Failure(<<"Failed to get window size: ", GetLastErrorString(r.err)>>))
             ELSE /\ op' = [op EXCEPT !.w = r.rect[3] - r.rect[1], !.h = r.rect[4] - r.rect[2],
                                      !.rectErr = 0]
                  /\ Goto("move_do")
  /\ log' = Append(log, "GetWindowRect")
  /\ UNCHANGED <<win, proc, held, prev>>

MoveFlags == {"NOSIZE", "SHOWWINDOW"}

MoveDoResizing(env) ==
  /\ pc = "move_do"
  /\ LET r == SetWindowPos(win, lastError, op.hwnd, op.x, op.y, 0, 0, {"SHOWWINDOW"}, env)
     IN /\ win' = r.win
        /\ lastError' = r.err
        /\ op' = IF r.ok THEN op ELSE Uncooperative(op)
        /\ IF r.ok
             THEN Return(Success)
             ELSE Return(Failure(<<GetLastErrorString(r.err)>>))
  /\ log' = Append(log, "SetWindowPos")
  /\ UNCHANGED <<proc, held, prev>>

MoveDo(env) ==
  /\ pc = "move_do"
  /\ LET r == SetWindowPos(win, lastError, op.hwnd, op.x, op.y, op.w, op.h, MoveFlags, env)
     IN /\ win' = r.win
        /\ lastError' = r.err
        /\ op' = IF r.ok THEN op ELSE Uncooperative(op)
        /\ IF r.ok
             THEN Return(Success)
             ELSE Return(Failure(<<GetLastErrorString(r.err)>>))
  /\ log' = Append(log, "SetWindowPos")
  /\ UNCHANGED <<proc, held, prev>>

\* ----------------------------------------------------------- UnparentWindow
\* The style UnparentWindow writes for a window whose style is style.
UnparentStyle(style) ==
  (style \ {"CHILD"}) \cup WS_CAPTION \cup {"THICKFRAME", "MINIMIZEBOX", "MAXIMIZEBOX", "SYSMENU"}

UnparentCallUnchecked(argsOk, h) ==
  /\ Enter("detach")
  /\ held' = {}
  /\ UNCHANGED <<win, proc, lastError>>
  /\ op' = [NewOp("detach") EXCEPT !.hwnd = h]
  /\ log' = <<>>
  /\ Goto("unparent_style")

UnparentCall(argsOk, h) ==
  /\ Enter("detach")
  /\ held' = {}
  /\ UNCHANGED <<win, proc, lastError>>
  /\ IF ~argsOk
       THEN /\ op' = NewOp("detach")
            /\ log' = <<>>
            /\ Return(Thrown)
       ELSE LET o == [NewOp("detach") EXCEPT !.hwnd = h]
            IN /\ log' = <<"IsWindow">>
               /\ IF ~IsWindow(win, h)
                    THEN /\ op' = Uncooperative(o)
                         /\ Return(Failure(<<"Invalid window handle">>))
                    ELSE /\ op' = o
                         /\ Goto("unparent_style")

UnparentSetStyle(env) ==
  /\ pc = "unparent_style"
  /\ LET g == GetWindowLongW(win, lastError, op.hwnd, "GWL_STYLE")
         s == SetWindowLongW(win, g.err, op.hwnd, "GWL_STYLE", UnparentStyle(g.ret), env)
     IN /\ win' = s.win
        /\ lastError' = s.err
        /\ op' = [(IF s.ok THEN op ELSE Uncooperative(op)) EXCEPT !.style = g.ret]
  /\ log' = log \o <<"GetWindowLongW", "SetWindowLongW">>
  /\ Goto("unparent_setparent")
  /\ UNCHANGED <<proc, held, prev>>

UnparentSetParent(env) ==
  /\ pc = "unparent_setparent"
  /\ LET r == SetParent(win, lastError, op.hwnd, NULL, env)
     IN /\ win' = r.win
        /\ lastError' = r.err
        /\ op' = [(IF r.ok THEN op ELSE Uncooperative(op)) EXCEPT
                    !.oldParent = r.ret, !.reparentErr = IF r.ok THEN 0 ELSE r.err]
  /\ log' = Append(log, "SetParent")
  /\ Goto("unparent_setpos")
  /\ UNCHANGED <<proc, held, prev>>

\* The frame-change refresh, then the result from oldParent and the last error.
UnparentSetPos(env) ==
  /\ pc = "unparent_setpos"
  /\ LET r == SetWindowPos(win, lastError, op.hwnd, 0, 0, 0, 0,
                           {"NOMOVE", "NOSIZE", "NOZORDER", "FRAMECHANGED"}, env)
     IN /\ win' = r.win
        /\ lastError' = r.err
        /\ op' = IF r.ok THEN op ELSE Uncooperative(op)
        /\ IF op.oldParent # NULL \/ r.err = 0
             THEN Return(Success)
             ELSE Return(Failure(<<GetLastErrorString(r.err)>>))
  /\ log' = Append(log, "SetWindowPos")
  /\ UNCHANGED <<proc, held, prev>>

\* --------------------------------------------------------------- processes
\* OpenProcess: a handle, or failure with "invalid parameter" when no process
\* has the id and with the platform's verdict env otherwise.
OpenProcess(pr, le, pid, env) ==
  IF pid \notin DOMAIN pr \/ ~pr[pid].alive
    THEN [ok |-> FALSE, err |-> ERROR_INVALID_PARAMETER]
  ELSE IF env # 0 THEN [ok |-> FALSE, err |-> env]
  ELSE [ok |-> TRUE, err |-> le]

\* The windows of an ended process are destroyed with it.
EndProcess(w, pid) == [h \in DOMAIN w |-> IF w[h].pid = pid THEN [w[h] EXCEPT !.live = FALSE] ELSE w[h]]

Separators == {"\\", "/"}

\* processName.substr(find_last_of("\\/") + 1), on a path given as its pieces.
RECURSIVE FindLastOf(_, _)
FindLastOf(path, i) ==
  IF i = 0 THEN 0
  ELSE IF path[i] \in Separators THEN i
  ELSE FindLastOf(path, i - 1)

\* The module path as it is, not cut at its last separator.
FileNameWhole(path) == path

FileNameOf(path) ==
  LET pos == FindLastOf(path, Len(path))
  IN IF pos # 0 THEN SubSeq(path, pos + 1, Len(path)) ELSE path

CloseHandleForgotten(handles, handle) == handles

CloseHandle(handles, handle) == handles \ {handle}

\* ---------------------------------------------------- TerminateProcessNative
OpenProcessFailureBare(error) == Failure(<<GetLastErrorString(error)>>)

\* The result when OpenProcess left error as the last-error code.
OpenProcessFailure(error) == Failure(<<"Failed to open process: ", GetLastErrorString(error)>>)

TerminateCall(argsOk, pid, env) ==
  /\ Enter("terminate")
  /\ UNCHANGED <<win, proc>>
  /\ IF ~argsOk
       THEN /\ op' = NewOp("terminate")
            /\ log' = <<>>
            /\ held' = {}
            /\ UNCHANGED lastError
            /\ Return(Thrown)
       ELSE LET r == OpenProcess(proc, lastError, pid, env)
                o == [NewOp("terminate") EXCEPT !.pid = pid, !.openErr = IF r.ok THEN 0 ELSE r.err]
            IN /\ log' = <<"OpenProcess">>
               /\ lastError' = r.err
               /\ IF ~r.ok
                    THEN /\ op' = Uncooperative(o)
                         /\ held' = {}
                         /\ Return(OpenProcessFailure(r.err))
                    ELSE /\ op' = o
                         /\ held' = {"hProcess"}
                         /\ Goto("terminate_do")

\* TerminateProcess, then CloseHandle.
TerminateDo(env) ==
  /\ pc = "terminate_do"
  /\ log' = log \o <<"TerminateProcess", "CloseHandle">>
  /\ held' = CloseHandle(held, "hProcess")
  /\ IF env = 0 /\ proc[op.pid].alive
       THEN /\ proc' = [proc EXCEPT ![op.pid].alive = FALSE]
            /\ win' = EndProcess(win, op.pid)
            /\ UNCHANGED <<lastError, op>>
            /\ Return(Success)
       ELSE /\ lastError' = IF env = 0 THEN 5 ELSE env
            /\ op' = Uncooperative(op)
            /\ UNCHANGED <<win, proc>>
            /\ Return(Failure(<<GetLastErrorString(lastError')>>))
  /\ UNCHANGED prev

\* ------------------------------------------------------ GetWindowInfoNative
InfoCall(argsOk, h) ==
  /\ Enter("info")
  /\ held' = {}
  /\ UNCHANGED <<win, proc, lastError>>
  /\ IF ~argsOk
       THEN /\ op' = NewOp("info")
            /\ log' = <<>>
            /\ Return(Thrown)
       ELSE LET o == [NewOp("info") EXCEPT !.hwnd = h]
            IN /\ log' = <<"IsWindow">>
               /\ IF ~IsWindow(win, h)
                    THEN /\ op' = Uncooperative(o)
                         /\ Return(Failure(<<"Invalid window handle">>))
                    ELSE /\ op' = o
                         /\ Goto("info_open")

\* Title and owning process, then OpenProcess.  A window destroyed since the
\* liveness check leaves title and processId unwritten: junk is what they
\* then hold.
InfoOpen(env, junk) ==
  /\ pc = "info_open"
  /\ LET alive == IsWindow(win, op.hwnd)
         title == IF alive THEN win[op.hwnd].title ELSE junk.title
         processId == IF alive THEN win[op.hwnd].pid ELSE junk.pid
         o == OpenProcess(proc, IF alive THEN lastError ELSE 1400, processId, env)
     IN /\ lastError' = o.err
        /\ log' = log \o <<"GetWindowTextA", "GetWindowThreadProcessId", "OpenProcess">>
        /\ IF o.ok
             THEN /\ held' = held \cup {"hProcess"}
                  /\ op' = [(IF alive THEN op ELSE Uncooperative(op)) EXCEPT !.pid = processId, !.openErr = 0]
                  /\ pc' = "info_module"
                  /\ result' = [NoResult EXCEPT !.title = title]
             ELSE /\ held' = held
                  /\ op' = Uncooperative([op EXCEPT !.pid = processId, !.openErr = o.err])
                  /\ Return([Success EXCEPT !.title = title, !.processName = <<"Unknown">>])
  /\ UNCHANGED <<win, proc, prev>>

\* GetModuleFileNameExA, the file name of the path, CloseHandle.
InfoModule(env) ==
  /\ pc = "info_module"
  /\ LET known == env = 0 /\ proc[op.pid].alive
         processName == IF known THEN FileNameOf(proc[op.pid].path) ELSE <<"Unknown">>
     IN /\ lastError' = IF known THEN lastError ELSE IF env = 0 THEN 5 ELSE env
        /\ op' = IF known THEN op ELSE Uncooperative(op)
        /\ Return([Success EXCEPT !.title = result.title, !.processName = processName])
  /\ log' = log \o <<"GetModuleFileNameExA", "CloseHandle">>
  /\ held' = CloseHandle(held, "hProcess")
  /\ UNCHANGED <<win, proc, prev>>

\* ----------------------------------------------------------- FindMainWindow
\* The callback without the exclusion of the shell classes.
EnumProcAnyClass(w, data, h, junk) ==
  LET alive == IsWindow(w, h)
      windowProcessId == IF alive THEN w[h].pid ELSE junk.pid
  IN IF windowProcessId # data.processId THEN [data |-> data, continue |-> TRUE]
     ELSE IF /\ IsWindowVisible(w, h)
             /\ GetParent(w, h) = NULL
             /\ (w[h].title # "" \/ w[h].style \cap WS_CAPTION # {} \/ "BORDER" \in w[h].style)
       THEN [data |-> [data EXCEPT !.hwnd = h], continue |-> FALSE]
     ELSE IF data.bestHwnd = NULL /\ IsWindow(w, h) /\ "TOOLWINDOW" \notin w[h].exStyle
       THEN [data |-> [data EXCEPT !.bestHwnd = h], continue |-> TRUE]
     ELSE [data |-> data, continue |-> TRUE]

\* The EnumWindows callback on window h.  data is the EnumData so far; the
\* answer is the new EnumData and whether enumeration continues.  For a window
\* destroyed since it was listed, windowProcessId and className are never
\* written: junk is what they then hold.
EnumProc(w, data, h, junk) ==
  LET alive == IsWindow(w, h)
      windowProcessId == IF alive THEN w[h].pid ELSE junk.pid
      className == IF alive THEN w[h].cls ELSE junk.cls
  IN IF windowProcessId # data.processId THEN [data |-> data, continue |-> TRUE]
     ELSE IF className \in SystemClasses THEN [data |-> data, continue |-> TRUE]
     ELSE IF /\ IsWindowVisible(w, h)
             /\ GetParent(w, h) = NULL
             /\ (w[h].title # "" \/ w[h].style \cap WS_CAPTION # {} \/ "BORDER" \in w[h].style)
       THEN [data |-> [data EXCEPT !.hwnd = h], continue |-> FALSE]
     ELSE IF data.bestHwnd = NULL /\ IsWindow(w, h) /\ "TOOLWINDOW" \notin w[h].exStyle
       THEN [data |-> [data EXCEPT !.bestHwnd = h], continue |-> TRUE]
     ELSE [data |-> data, continue |-> TRUE]

\* EnumWindows over the listed handles, from position i on.
RECURSIVE EnumWindows(_, _, _, _, _)
EnumWindows(w, listed, i, data, junk) ==
  IF i > Len(listed) THEN data
  ELSE LET r == EnumProc(w, data, listed[i], junk)
       IN IF r.continue THEN EnumWindows(w, listed, i + 1, r.data, junk) ELSE r.data

\* The top-level windows, in the order the platform lists them.
RECURSIVE TopLevel(_, _, _)
TopLevel(w, order, i) ==
  IF i > Len(order) THEN <<>>
  ELSE (IF IsWindow(w, order[i]) /\ w[order[i]].parent = NULL THEN <<order[i]>> ELSE <<>>)
       \o TopLevel(w, order, i + 1)

\* listed: the windows the platform enumerates; w: the table the callbacks see.
FindMainWindow(w, listed, processId, junk) ==
  LET enumData == EnumWindows(w, listed, 1, [processId |-> processId, hwnd |-> NULL, bestHwnd |-> NULL], junk)
  IN IF enumData.hwnd # NULL THEN enumData.hwnd ELSE enumData.bestHwnd

\* --------------------------------------------------------- GetMainWindowAPI
Orders == {o \in [1..NumWindows -> Hwnds] : \A a, b \in 1..NumWindows : a # b => o[a] # o[b]}

\* Argument check and FindMainWindow.  order is the platform's enumeration
\* order; the window race.h (if any) is destroyed by its owner after the
\* platform listed it and before the callback sees it.
MainCall(argsOk, processId, order, race) ==
  /\ Enter("mainwindow")
  /\ held' = {}
  /\ UNCHANGED <<proc, lastError>>
  /\ IF ~argsOk
       THEN /\ op' = NewOp("mainwindow")
            /\ log' = <<>>
            /\ UNCHANGED win
            /\ Return(Thrown)
       ELSE LET listed == TopLevel(win, order, 1)
                seen == IF IsWindow(win, race.h) THEN [win EXCEPT ![race.h].live = FALSE] ELSE win
                hwnd == FindMainWindow(seen, listed, processId, race)
                o == [NewOp("mainwindow") EXCEPT !.pid = processId, !.hwnd = hwnd]
            IN /\ win' = seen
               /\ op' = IF seen # win THEN Uncooperative(o) ELSE o
               /\ log' = <<"EnumWindows">>
               /\ Goto("main_check")

MainCheckUnverified ==
  /\ pc = "main_check"
  /\ log' = log
  /\ IF op.hwnd # NULL
       THEN Return([Success EXCEPT !.hwnd = op.hwnd])
       ELSE Return([NoResult EXCEPT !.success = "false"])
  /\ UNCHANGED <<win, proc, lastError, op, held, prev>>

MainCheck ==
  /\ pc = "main_check"
  /\ log' = IF op.hwnd # NULL THEN Append(log, "IsWindow") ELSE log
  /\ IF op.hwnd # NULL /\ IsWindow(win, op.hwnd)
       THEN Return([Success EXCEPT !.hwnd = op.hwnd])
       ELSE Return([NoResult EXCEPT !.success = "false"])
  /\ UNCHANGED <<win, proc, lastError, op, held, prev>>

\* -------------------------------------------------------- LaunchApplication
ExePath(exe) == <<"C:", "\\", "Apps", "\\", exe>>

ExeFiles == {"app.exe"}

FreePids == {p \in Pids : ~proc[p].alive}

\* CreateProcessA starts exe as process newPid, or fails (newPid = NULL, or no
\* such file); the thread handle is closed, the process handle is returned.
LaunchApplication(argsOk, exe, newPid) ==
  /\ Enter("launch")
  /\ newPid \in FreePids \cup {NULL}
  /\ UNCHANGED win
  /\ IF ~argsOk
       THEN /\ op' = NewOp("launch")
            /\ log' = <<>>
            /\ held' = {}
            /\ UNCHANGED <<proc, lastError>>
            /\ Return(Thrown)
       ELSE LET o == [NewOp("launch") EXCEPT !.exe = exe, !.pid = newPid]
                success == exe \in ExeFiles /\ newPid # NULL
            IN IF ~success
                 THEN /\ lastError' = IF exe \in ExeFiles THEN 5 ELSE 2
                      /\ op' = Uncooperative(o)
                      /\ log' = <<"CreateProcessA">>
                      /\ held' = {}
                      /\ UNCHANGED proc
                      /\ Return(Failure(<<"Failed to launch process: ", GetLastErrorString(lastError')>>))
                 ELSE /\ proc' = [proc EXCEPT ![newPid] = [alive |-> TRUE, path |-> ExePath(exe)]]
                      /\ op' = o
                      /\ log' = <<"CreateProcessA", "CloseHandle">>
                      /\ held' = CloseHandle({"hProcess", "hThread"}, "hThread")
                      /\ UNCHANGED lastError
                      /\ Return([Success EXCEPT !.processId = newPid, !.processHandle = TRUE])

\* ------------------------------------------------------- the foreign process
\* The process that owns a window destroys it, at any moment.  A call in
\* progress on it is no longer on a cooperative window; a completed call's
\* record is marked as no longer describing the windows as the call left them.
DestroyWindow(h) ==
  /\ win[h].live
  /\ win' = [win EXCEPT ![h].live = FALSE]
  /\ op' = IF pc = "idle" THEN [op EXCEPT !.touched = TRUE]
           ELSE IF op.hwnd = h THEN Uncooperative(op) ELSE op
  /\ UNCHANGED <<proc, lastError, pc, log, result, held, prev>>

\* ------------------------------------------------------------ specification
WS_OVERLAPPEDWINDOW == WS_CAPTION \cup {"SYSMENU", "THICKFRAME", "MINIMIZEBOX", "MAXIMIZEBOX"}

\* Styles of the windows the foreign processes create: a framed application
\* window, shown or still hidden, a borderless popup, a thin-border popup.
InitStyles == {WS_OVERLAPPEDWINDOW \cup {"VISIBLE"}, WS_OVERLAPPEDWINDOW,
               {"POPUP", "VISIBLE"}, {"POPUP", "BORDER", "VISIBLE"}}

InitProc == [p \in Pids |-> [alive |-> TRUE,
                             path |-> IF p = NumProcs THEN ExePath("app.exe") ELSE <<"tool.exe">>]]

PidOf(h) == ((h - 1) % NumProcs) + 1

AppWindow(h, s) ==
  [live |-> TRUE, pid |-> PidOf(h), cls |-> "App", title |-> "App", style |-> s,
   exStyle |-> {"WINDOWEDGE"}, parent |-> NULL, owner |-> NULL, rect |-> <<0, 0, 1, 1>>]

InitCommon ==
  /\ proc = InitProc
  /\ lastError = 0
  /\ pc = "idle"
  /\ log = <<>>
  /\ result = NoResult
  /\ held = {}
  /\ prev = NoPrev
  /\ op = [NewOp("none") EXCEPT !.before = <<>>, !.beforeError = 0, !.beforeProc = <<>>]

\* The managed window starts with any of the styles; the others are plain
\* application windows.
InitWith(styles) ==
  /\ \E s \in styles :
       win = [h \in Hwnds |-> AppWindow(h, IF h = Target THEN s ELSE WS_OVERLAPPEDWINDOW \cup {"VISIBLE"})]
  /\ InitCommon

Init == InitWith(InitStyles)

\* A framed application window, shown or still hidden.
InitFramed == InitWith({WS_OVERLAPPEDWINDOW \cup {"VISIBLE"}, WS_OVERLAPPEDWINDOW})

InitShown == InitWith({WS_OVERLAPPEDWINDOW \cup {"VISIBLE"}})

Envs == {0, 5}
Junk == [h : {NULL}, pid : Pids \cup {NoPid}, cls : {"App", "Progman"}, title : {"", "App"}]
NoRace == [h |-> NULL, pid |-> NoPid, cls |-> "App", title |-> ""]
Races == {NoRace} \cup [h : Hwnds, pid : {NumProcs}, cls : {"App"}, title : {""}]

EmbedSteps ==
  \/ \E fg \in Envs : EmbedShow(fg)
  \/ \E env \in Envs \cup {ERROR_INVALID_PARAMETER} : EmbedSetParent(env)
  \/ EmbedCheck1
  \/ EmbedGetStyles
  \/ EmbedCheck2
  \/ \E env \in Envs : EmbedSetStyles(env)
  \/ EmbedCheck3
  \/ \E env \in Envs : EmbedSetPos(env)
  \/ EmbedCheck4
  \/ EmbedRepaint

Embed ==
  \/ \E argsOk \in BOOLEAN, h \in HandleArgs, p \in ParentArgs, x, y \in Coords, w, ht \in Sizes :
       EmbedCall(argsOk, h, p, x, y, w, ht)
  \/ EmbedSteps

Show ==
  \/ \E argsOk \in BOOLEAN, h \in HandleArgs, show \in BOOLEAN : ShowCall(argsOk, h, show)
  \/ ShowDo

Resize ==
  \/ \E argsOk \in BOOLEAN, h \in HandleArgs, x, y \in Coords, w, ht \in Sizes :
       ResizeCall(argsOk, h, x, y, w, ht)
  \/ \E env \in Envs : ResizeDo(env)

Move ==
  \/ \E argsOk \in BOOLEAN, h \in HandleArgs, x, y \in Coords : MoveCall(argsOk, h, x, y)
  \/ \E env \in Envs : MoveGetRect(env)
  \/ \E env \in Envs : MoveDo(env)

Unparent ==
  \/ \E argsOk \in BOOLEAN, h \in HandleArgs : UnparentCall(argsOk, h)
  \/ \E env \in Envs : UnparentSetStyle(env)
  \/ \E env \in Envs : UnparentSetParent(env)
  \/ \E env \in Envs : UnparentSetPos(env)

Terminate ==
  \/ \E argsOk \in BOOLEAN, pid \in Pids \cup {NoPid}, env \in Envs : TerminateCall(argsOk, pid, env)
  \/ \E env \in Envs : TerminateDo(env)

Info ==
  \/ \E argsOk \in BOOLEAN, h \in HandleArgs : InfoCall(argsOk, h)
  \/ \E env \in Envs, junk \in Junk : InfoOpen(env, junk)
  \/ \E env \in Envs : InfoModule(env)

MainWindow ==
  \/ \E pid \in {1, NumProcs, NoPid}, order \in Orders, race \in Races : MainCall(TRUE, pid, order, race)
  \/ \E order \in Orders : MainCall(FALSE, NoPid, order, NoRace)
  \/ MainCheck

Launch ==
  \E argsOk \in BOOLEAN, exe \in {"app.exe", "missing.exe"}, newPid \in Pids \cup {NULL} :
    LaunchApplication(argsOk, exe, newPid)

Foreign == \E h \in Hwnds : DestroyWindow(h)

\* The whole subsystem.
Next ==
  \/ Embed
  \/ Show
  \/ Resize
  \/ Move
  \/ Unparent
  \/ Terminate
  \/ Info
  \/ MainWindow
  \/ Launch
  \/ Foreign

Spec == Init /\ [][Next]_vars

\* The embedding engine alone: embed and detach of the managed window into
\* one rectangle of the container, against a foreign process that may destroy
\* the window at any moment and a platform that may refuse any call.
NextEmbed ==
  \/ \E argsOk \in BOOLEAN, h \in HandleArgs, p \in ParentArgs :
       EmbedCall(argsOk, h, p, MaxCoord, 0, 1, MaxSize)
  \/ EmbedSteps
  \/ Unparent
  \/ DestroyWindow(Target)

SpecEmbed == Init /\ [][NextEmbed]_vars

\* The window control surface: show/hide, resize and move of the managed
\* window; resize keeps to the top edge.
NextControl ==
  \/ Show
  \/ \E argsOk \in BOOLEAN, h \in HandleArgs, x \in Coords, w, ht \in Sizes :
       ResizeCall(argsOk, h, x, 0, w, ht)
  \/ \E env \in Envs : ResizeDo(env)
  \/ Move
  \/ DestroyWindow(Target)

SpecControl == InitFramed /\ [][NextControl]_vars

\* Every operation that changes a window, each with one rectangle.
NextWindow ==
  \/ NextEmbed
  \/ Show
  \/ \E argsOk \in BOOLEAN, h \in HandleArgs : ResizeCall(argsOk, h, 0, MaxCoord, MaxSize, 1)
  \/ \E env \in Envs : ResizeDo(env)
  \/ \E argsOk \in BOOLEAN, h \in HandleArgs : MoveCall(argsOk, h, MaxCoord, MaxCoord)
  \/ \E env \in Envs : MoveGetRect(env)
  \/ \E env \in Envs : MoveDo(env)

SpecWindow == InitShown /\ [][NextWindow]_vars

\* Processes: launch, terminate, and the window information that opens the
\* owning process.
NextProc ==
  \/ Launch
  \/ Terminate
  \/ Info
  \/ Foreign

SpecProc == Init /\ [][NextProc]_vars

\* The main-window resolver, on every table of top-level windows of these
\* kinds: a shown main window, a main window not yet shown, a bare splash
\* window, a tool window with a border, a dialog owned by another window.
MainKinds ==
  {[title |-> "App", style |-> WS_OVERLAPPEDWINDOW \cup {"VISIBLE"}, exStyle |-> {}, owner |-> NULL],
   [title |-> "App", style |-> WS_OVERLAPPEDWINDOW, exStyle |-> {}, owner |-> NULL]}

WindowKinds ==
  MainKinds \cup
  {
   [title |-> "", style |-> {"POPUP", "VISIBLE"}, exStyle |-> {}, owner |-> NULL],
   [title |-> "", style |-> {"BORDER"}, exStyle |-> {"TOOLWINDOW"}, owner |-> NULL],
   [title |-> "App", style |-> {"POPUP", "DLGFRAME", "VISIBLE"}, exStyle |-> {}, owner |-> Container]}

KindWindow(pid, cls, live, k) ==
  [live |-> live, pid |-> pid, cls |-> cls, title |-> k.title, style |-> k.style,
   exStyle |-> k.exStyle, parent |-> NULL, owner |-> k.owner, rect |-> <<0, 0, 1, 1>>]

Shown == WS_OVERLAPPEDWINDOW \cup {"VISIBLE"}

\* Windows of the shell's classes, owned by the last process: the taskbars
\* shown, the desktop and a button host not shown.
ShellWindows ==
  {KindWindow(NumProcs, cls, TRUE,
              [title |-> "App", exStyle |-> {}, owner |-> NULL,
               style |-> IF cls \in {"Shell_TrayWnd", "Shell_SecondaryTrayWnd"}
                           THEN Shown ELSE WS_OVERLAPPEDWINDOW]) : cls \in SystemClasses}

\* Windows of every kind of the last process, main windows of the first, the
\* shell's windows, and a window already destroyed.
InitResolve ==
  /\ win \in [Hwnds -> {KindWindow(NumProcs, "App", TRUE, k) : k \in WindowKinds}
                       \cup {KindWindow(1, "App", TRUE, k) : k \in MainKinds}
                       \cup ShellWindows
                       \cup {KindWindow(NumProcs, "App", FALSE, k) : k \in {kk \in MainKinds : kk.style = Shown}}]
  /\ InitCommon

\* The foreign process destroys the window FindMainWindow has just returned.
NextResolve ==
  \/ MainWindow
  \/ pc = "main_check" /\ op.hwnd # NULL /\ DestroyWindow(op.hwnd)

SpecResolve == InitResolve /\ [][NextResolve]_vars

\* The operations that take a window handle and are not embed, each with one
\* request, on a window its owner may destroy at any moment.
NextHandles ==
  \/ Show
  \/ \E argsOk \in BOOLEAN, h \in HandleArgs : ResizeCall(argsOk, h, MaxCoord, 0, MaxSize, 1)
  \/ \E env \in Envs : ResizeDo(env)
  \/ \E argsOk \in BOOLEAN, h \in HandleArgs : MoveCall(argsOk, h, MaxCoord, MaxCoord)
  \/ \E env \in Envs : MoveGetRect(env)
  \/ \E env \in Envs : MoveDo(env)
  \/ Unparent
  \/ Info
  \/ DestroyWindow(Target)

SpecHandles == InitFramed /\ [][NextHandles]_vars

\* ---------------------------------------------------------------- properties
\* The platform calls that change a window (show, bring to front, reparent,
\* restyle, reposition, repaint).
MutatingCalls == {"ShowWindow", "BringWindowToTop", "SetForegroundWindow", "SetParent",
                  "SetWindowLongW", "SetWindowPos", "InvalidateRect", "UpdateWindow",
                  "RedrawWindow"}

MutatingOps == {"embed", "show", "resize", "move", "detach"}

\* The call name has returned a result object (its arguments were accepted).
Returned(name) == pc = "idle" /\ op.name = name /\ ~result.threw

\* ... and the windows are still as the call left them.
JustReturned(name) == Returned(name) /\ ~op.touched

RectSize(r) == <<r[3] - r[1], r[4] - r[2]>>

Mutations(l) == {i \in DOMAIN l : l[i] \in MutatingCalls}

Checks(l) == {i \in DOMAIN l : l[i] = "IsWindow"}

\* C1: a successful embed of a valid request on a cooperative window, followed
\* at once by a successful detach, leaves the window's style equal to its
\* style before embed and its parent none.
C1_EmbedDetachRestores ==
  (/\ JustReturned("detach")
   /\ prev.name = "embed" /\ prev.hwnd = op.hwnd /\ op.hwnd \in Hwnds
   /\ prev.parent = Container
   /\ prev.coop /\ op.coop
   /\ prev.success = "true" /\ result.success = "true")
  => /\ win[op.hwnd].style = prev.before[op.hwnd].style
     /\ win[op.hwnd].parent = NULL

\* C2: embed on a handle that is not a live window fails at the first liveness
\* check, issues no other platform call and leaves every window as it was.
C2_EmbedDeadHandle ==
  (Returned("embed") /\ ~IsWindow(op.before, op.hwnd))
  => /\ result.success = "false"
     /\ log = <<"IsWindow">>
     /\ Mutations(log) = {}
     /\ (~op.touched => win = op.before)

C2_Witness ==
  /\ JustReturned("embed")
  /\ op.hwnd \in Hwnds /\ ~op.before[op.hwnd].live
  /\ result.success = "false"

\* C3: embed of a live top-level window with container handle 0, every
\* platform call succeeding, fails with an error message and leaves the window
\* top-level: no parent, no child bit.
C3_EmbedNullContainerFails ==
  (/\ JustReturned("embed")
   /\ op.parent = NULL
   /\ op.coop
   /\ IsWindow(op.before, op.hwnd)
   /\ op.before[op.hwnd].parent = NULL /\ "CHILD" \notin op.before[op.hwnd].style)
  => /\ result.success = "false"
     /\ result.error # <<>>
     /\ win[op.hwnd].parent = NULL
     /\ "CHILD" \notin win[op.hwnd].style

\* C4: a reparent that fails with code 87 gives the refusal message, one that
\* fails with another code the generic message; neither is followed by a style
\* or position call, and style, parent and rectangle stay as they were.
C4_ReparentRefusal ==
  (pc = "idle" /\ op.name = "embed" /\ op.reparentErr > 0)
  => /\ result.success = "false"
     /\ op.reparentErr = ERROR_INVALID_PARAMETER
          => result.error = <<"Application refuses window embedding (security restriction)">>
     /\ op.reparentErr # ERROR_INVALID_PARAMETER
          => Len(result.error) = 2 /\ result.error[1] = "Failed to set parent: "
     /\ \A i \in DOMAIN log : log[i] \notin {"SetWindowLongW", "SetWindowPos"}
     /\ \A h \in Hwnds :
          /\ win[h].style \ {"VISIBLE"} = op.before[h].style \ {"VISIBLE"}
          /\ win[h].exStyle = op.before[h].exStyle
          /\ win[h].parent = op.before[h].parent
          /\ win[h].rect = op.before[h].rect

C4_Witness ==
  /\ JustReturned("embed")
  /\ op.reparentErr = ERROR_INVALID_PARAMETER
  /\ IsWindow(win, op.hwnd)
  /\ result.error = <<"Application refuses window embedding (security restriction)">>

\* A process owns a live top-level window of the table.
OwnsTopLevelWindow(w, pid) == \E h \in DOMAIN w : IsWindow(w, h) /\ w[h].pid = pid /\ w[h].parent = NULL

\* C5: for a process that owns no live top-level window resolveMainWindow
\* fails and returns no handle; a handle it returns is a live window of the
\* process asked for.
C5_NoWindowNoHandle ==
  Returned("mainwindow")
  => /\ ~OwnsTopLevelWindow(op.before, op.pid)
          => result.success = "false" /\ result.hwnd = NULL
     /\ result.success = "false" => result.hwnd = NULL
     /\ result.hwnd # NULL
          => /\ result.hwnd \in Hwnds
             /\ op.before[result.hwnd].pid = op.pid
             /\ ~op.touched => IsWindow(win, result.hwnd)

C5_Witness ==
  /\ Returned("mainwindow")
  /\ op.pid \in Pids
  /\ ~OwnsTopLevelWindow(op.before, op.pid)
  /\ \E h \in Hwnds : IsWindow(op.before, h)
  /\ result.success = "false"

\* C6: a successful move leaves the window's width and height equal to those
\* read from the window at the start of the call.
C6_MovePreservesSize ==
  (JustReturned("move") /\ result.success = "true")
  => /\ RectSize(win[op.hwnd].rect) = RectSize(op.before[op.hwnd].rect)
     /\ RectSize(win[op.hwnd].rect) = <<op.w, op.h>>

C6_Witness ==
  /\ JustReturned("move") /\ result.success = "true"
  /\ win[op.hwnd].rect # op.before[op.hwnd].rect
  /\ op.before[op.hwnd].rect[1] # 0
  /\ RectSize(win[op.hwnd].rect) = <<MaxSize, 1>>

\* C7 as stated: every mutating operation checks liveness before its first
\* mutating call and again after its last one.
C7_CheckBeforeAndAfter ==
  (pc = "idle" /\ op.name \in MutatingOps /\ Mutations(log) # {})
  => /\ \E c \in Checks(log) : \A m \in Mutations(log) : c < m
     /\ \E c \in Checks(log) : \A m \in Mutations(log) : c > m

\* C7 amended: every mutating call of an operation is preceded by a liveness
\* check; no operation makes a liveness check after its last mutating call on
\* a path that returns success (only embed does, where it returns failure).
C7_CheckBeforeFirstMutation ==
  /\ \A m \in Mutations(log) : \E c \in Checks(log) : c < m
  /\ (/\ pc = "idle" /\ op.name \in MutatingOps /\ Mutations(log) # {}
      /\ \E c \in Checks(log) : \A m \in Mutations(log) : c > m)
       => op.name = "embed" /\ result.success = "false"

C7_Witness ==
  /\ JustReturned("detach") /\ result.success = "true"
  /\ log[1] = "IsWindow"
  /\ log[Len(log)] = "SetWindowPos"
  /\ win[op.hwnd].parent = NULL /\ op.before[op.hwnd].parent = Container

\* C8: every operation returns a result object and never throws, and a result
\* with success=false carries an error string.
C8_FailureCarriesError ==
  (pc = "idle" /\ op.name # "none")
  => /\ ~result.threw
     /\ result.success \in {"true", "false"}
     /\ result.success = "false" => result.error # <<>>

ProcessOps == {"launch", "terminate", "info"}

\* C9 as stated: no process or thread handle a call obtained is open when it
\* returns.
C9_NoHandleLeftOpen ==
  (pc = "idle" /\ op.name \in ProcessOps) => held = {}

\* C9 amended: terminate and queryWindowInfo return with no handle open;
\* launchProcess closes the thread handle and returns with exactly the process
\* handle open when it succeeds (it is the processHandle of the result), and
\* with none when it fails.
C9_OnlyLaunchedProcessLeftOpen ==
  (pc = "idle" /\ op.name \in ProcessOps)
  => /\ held = IF op.name = "launch" /\ result.success = "true" THEN {"hProcess"} ELSE {}
     /\ result.processHandle <=> "hProcess" \in held

C9_Witness ==
  /\ Returned("terminate") /\ result.success = "true"
  /\ op.openErr = 0
  /\ held = {}

\* C10: terminate of a process that cannot be opened fails with a message
\* starting "Failed to open process" and makes no termination call.
C10_TerminateUnopenable ==
  (/\ Returned("terminate")
   /\ \/ op.openErr > 0
      \/ op.pid \notin DOMAIN op.beforeProc
      \/ ~op.beforeProc[op.pid].alive)
  => /\ result.success = "false"
     /\ Len(result.error) = 2 /\ result.error[1] = "Failed to open process: "
     /\ \A i \in DOMAIN log : log[i] # "TerminateProcess"
     /\ proc = op.beforeProc

C10_Witness ==
  /\ Returned("terminate")
  /\ op.pid = NoPid
  /\ result.success = "false"
  /\ lastError = ERROR_INVALID_PARAMETER

\* The platform calls of a complete EmbedWindow, in program order.
EmbedProtocol ==
  <<"IsWindow",
    "ShowWindow", "BringWindowToTop", "SetForegroundWindow",
    "SetParent",
    "IsWindow",
    "GetWindowLongW", "GetWindowLongW",
    "IsWindow",
    "SetWindowLongW", "SetWindowLongW",
    "IsWindow",
    "SetWindowPos",
    "IsWindow",
    "ShowWindow", "BringWindowToTop", "InvalidateRect", "UpdateWindow", "RedrawWindow">>

\* The mutating step of EmbedWindow the i-th call of the protocol belongs to.
EmbedStepAt(i) ==
  IF i \in 2..4 THEN "show"
  ELSE IF i = 5 THEN "reparent"
  ELSE IF i \in 10..11 THEN "style"
  ELSE IF i = 13 THEN "reposition"
  ELSE IF i \in 15..19 THEN "repaint"
  ELSE "none"

\* The positions of EmbedWindow at which it is about to check liveness again.
EmbedChecks == {"embed_check1", "embed_check2", "embed_check3", "embed_check4"}

IsPrefix(s, t) == Len(s) <= Len(t) /\ \A i \in DOMAIN s : s[i] = t[i]

\* C11 as stated: any two mutating calls of embed that belong to different
\* steps have a liveness check between them, and a completed embed ends with a
\* liveness check after its repaint step.
C11_CheckAfterEveryStep ==
  op.name = "embed"
  => /\ \A i, j \in Mutations(log) :
          (i < j /\ EmbedStepAt(i) # EmbedStepAt(j)) => \E c \in Checks(log) : i < c /\ c < j
     /\ (pc = "idle" /\ result.success = "true") => log[Len(log)] = "IsWindow"

\* C11 amended: the calls of embed are a prefix of the protocol, in which a
\* liveness check follows the reparent, the style read, the style application
\* and the reposition, none separates force-visible from reparent and none
\* follows the repaint; a check that finds the window gone ends the call with
\* a failure.
C11_ChecksOfProtocol ==
  /\ [](op.name = "embed" => IsPrefix(log, EmbedProtocol))
  /\ [][(pc \in EmbedChecks /\ pc' # pc /\ ~IsWindow(win, op.hwnd))
          => (pc' = "idle" /\ result'.success = "false" /\ log' = Append(log, "IsWindow"))]_vars

C11_Witness ==
  /\ JustReturned("embed")
  /\ Len(log) = 12 /\ log[12] = "IsWindow"
  /\ result.success = "false"
  /\ ~IsWindow(win, op.hwnd) /\ IsWindow(op.before, op.hwnd)

\* C12: embed returns success=true only if it made every call of the protocol
\* (so the window passed the liveness check that follows the reposition), the
\* window's parent is the container it was given and the new style bits are
\* the window's style bits.
C12_SuccessMeansEmbedded ==
  (Returned("embed") /\ op.parent = Container /\ result.success = "true")
  => /\ log = EmbedProtocol
     /\ win[op.hwnd].parent = op.parent
     /\ win[op.hwnd].style = EmbedStyle(op.style)
     /\ win[op.hwnd].exStyle = EmbedExStyle(op.exStyle)

\* The failing exits of EmbedWindow: the first part of the error message of
\* each, and the number of platform calls made when it returns.
EmbedExits ==
  {<<"Invalid window handle", 1>>,
   <<"Application refuses window embedding (security restriction)", 5>>,
   <<"Failed to set parent: ", 5>>,
   <<"Window closed immediately after embedding (app may not support embedding)", 6>>,
   <<"Window closed immediately after SetParent (app security restriction)", 9>>,
   <<"Window closed after style modification (app may not support embedding)", 12>>,
   <<"Failed to position window: ", 13>>,
   <<"Window closed during embedding process", 14>>}

\* C13: a failed embed has issued the calls of the protocol up to the exit its
\* message names and none after it; no message belongs to two steps.
C13_MessageNamesStep ==
  /\ (Returned("embed") /\ result.success = "false")
       => /\ IsPrefix(log, EmbedProtocol)
          /\ <<result.error[1], Len(log)>> \in EmbedExits
  /\ \A e, f \in EmbedExits : (e[1] = f[1]) => (EmbedStepAt(e[2]) = EmbedStepAt(f[2]) /\ e[2] = f[2])

C13_Witness ==
  /\ JustReturned("embed")
  /\ result.error = <<"Window closed immediately after SetParent (app security restriction)">>
  /\ Len(log) = 9
  /\ win[op.hwnd].parent = Container

\* C14: when the style application or the reposition of embed fails while
\* the window stays live, embed returns success=false and its message ends
\* with the system's text for the error.
C14_PlatformFailureReported ==
  (/\ Returned("embed")
   /\ IsWindow(win, op.hwnd)
   /\ op.styleErr > 0 \/ op.posErr > 0)
  => /\ result.success = "false"
     /\ Len(result.error) = 2
     /\ result.error[2] = GetLastErrorString(IF op.styleErr > 0 THEN op.styleErr ELSE op.posErr)

\* A style with or without the visible bit that ShowWindow(SW_SHOW) sets.
Shows(style) == {style, style \cup {"VISIBLE"}}

C16_WrittenStyle ==
  (op.name = "embed" /\ op.styleErr = 0)
  => LET original == op.style
         written == win[op.hwnd].style
     IN /\ written \cap {"THICKFRAME", "MINIMIZEBOX", "MAXIMIZEBOX", "SYSMENU", "POPUP"} = {}
        /\ {"CHILD", "VISIBLE"} \subseteq written
        /\ (WS_CAPTION \subseteq written) <=> (WS_CAPTION \subseteq original)
        /\ ~(WS_CAPTION \subseteq original)
             => written \cap WS_CAPTION = (original \cap WS_CAPTION) \cup {"BORDER"}

\* A window of the process that is not of an excluded class.
Candidate(w, h, pid) == IsWindow(w, h) /\ w[h].pid = pid /\ w[h].cls \notin SystemClasses

\* The resolver's first rank: visible, neither parent nor owner, and a title
\* or a caption or border bit.
RankOne(w, h, pid) ==
  /\ Candidate(w, h, pid)
  /\ "VISIBLE" \in w[h].style
  /\ GetParent(w, h) = NULL
  /\ w[h].title # "" \/ w[h].style \cap WS_CAPTION # {}

\* The resolver's fallback: not a tool window.
Fallback(w, h, pid) == Candidate(w, h, pid) /\ "TOOLWINDOW" \notin w[h].exStyle

\* The first window of the sequence listed that is in the set among, or NULL.
FirstAmong(listed, among) ==
  IF \E i \in DOMAIN listed : listed[i] \in among
    THEN listed[CHOOSE i \in DOMAIN listed :
                  listed[i] \in among /\ \A j \in 1..(i - 1) : listed[j] \notin among]
    ELSE NULL

\* The window the ranking designates among the listed ones.
RankedWindow(w, listed, pid) ==
  LET first == FirstAmong(listed, {h \in DOMAIN w : RankOne(w, h, pid)})
  IN IF first # NULL THEN first
     ELSE FirstAmong(listed, {h \in DOMAIN w : Fallback(w, h, pid)})

\* For every enumeration order, FindMainWindow yields the first first-rank
\* window of the order, else the first fallback window, else none.
FirstInOrder ==
  [][\A pid \in Pids \cup {NoPid}, order \in Orders :
       MainCall(TRUE, pid, order, NoRace)
         => op'.hwnd = RankedWindow(win, TopLevel(win, order, 1), pid)]_vars

\* C17: resolveMainWindow on an undisturbed window table returns a first-rank
\* window of the process when one exists, else a fallback window when one
\* exists, else failure with the message "no window found".
C17_RankedResult ==
  (Returned("mainwindow") /\ op.coop)
  => LET w == op.before
         ranked == {h \in Hwnds : RankOne(w, h, op.pid)}
         others == {h \in Hwnds : Fallback(w, h, op.pid)}
     IN /\ ranked # {} => result.success = "true" /\ result.hwnd \in ranked
        /\ (ranked = {} /\ others # {}) => result.success = "true" /\ result.hwnd \in others
        /\ (ranked = {} /\ others = {})
             => result.success = "false" /\ result.error = <<"no window found">>

\* C18: the handle resolveMainWindow returns belongs to the process asked for
\* and is never of class Shell_TrayWnd, Shell_SecondaryTrayWnd, Progman or
\* Button, for the first-rank result and for the fallback result alike.
C18_NeverShellWindow ==
  (Returned("mainwindow") /\ result.success = "true")
  => /\ result.hwnd \in Hwnds
     /\ win[result.hwnd].pid = op.pid
     /\ win[result.hwnd].cls \notin SystemClasses

\* A fallback window is returned although the process has a visible, titled,
\* parentless window of a shell class.
C18_Witness ==
  /\ JustReturned("mainwindow") /\ op.coop
  /\ result.success = "true"
  /\ ~RankOne(win, result.hwnd, op.pid)
  /\ \E h \in Hwnds :
       /\ IsWindow(win, h) /\ win[h].pid = op.pid /\ win[h].cls \in SystemClasses
       /\ "VISIBLE" \in win[h].style /\ GetParent(win, h) = NULL /\ win[h].title # ""

\* The positions in l of the calls named call.
CallsOf(l, call) == {i \in DOMAIN l : l[i] = call}

\* The frame bits detach restores.
FrameBits == WS_CAPTION \cup {"THICKFRAME", "MINIMIZEBOX", "MAXIMIZEBOX", "SYSMENU"}

\* What detach leaves of a window that every platform call was carried out on:
\* the frame bits set, the child bit cleared, no parent, the same rectangle.
DetachOnCooperativeWindow ==
  (JustReturned("detach") /\ IsWindow(op.before, op.hwnd) /\ op.coop)
  => /\ win[op.hwnd].style = UnparentStyle(op.before[op.hwnd].style)
     /\ win[op.hwnd].exStyle = op.before[op.hwnd].exStyle
     /\ win[op.hwnd].parent = NULL
     /\ win[op.hwnd].rect = op.before[op.hwnd].rect
     /\ log = <<"IsWindow", "GetWindowLongW", "SetWindowLongW", "SetParent", "SetWindowPos">>

\* C19: after a successful detach of a live window its style has the child bit
\* cleared and the caption, resizable-frame, minimize-box, maximize-box and
\* system-menu bits set, its parent is none and its rectangle is the one it had
\* before the call; the style is written before the parent is cleared; and
\* detach of a window that embed has just embedded in the container succeeds.
C19_DetachRestoresFrame ==
  /\ (JustReturned("detach") /\ IsWindow(op.before, op.hwnd) /\ result.success = "true")
     => /\ "CHILD" \notin win[op.hwnd].style
        /\ FrameBits \subseteq win[op.hwnd].style
        /\ win[op.hwnd].parent = NULL
        /\ win[op.hwnd].rect = op.before[op.hwnd].rect
        /\ \A i \in CallsOf(log, "SetWindowLongW"), j \in CallsOf(log, "SetParent") : i < j
  /\ (/\ JustReturned("detach") /\ op.coop
      /\ prev.name = "embed" /\ prev.hwnd = op.hwnd /\ prev.parent = Container
      /\ prev.success = "true" /\ prev.coop)
     => result.success = "true"

\* C20: move and resize leave the window's visibility, parent and style bits
\* as they were before the call; a window hidden by the call before is still
\* hidden after them.
C20_OnlyPositionChanges ==
  (/\ JustReturned("move") \/ JustReturned("resize")
   /\ IsWindow(op.before, op.hwnd))
  => /\ IsWindowVisible(win, op.hwnd) = IsWindowVisible(op.before, op.hwnd)
     /\ win[op.hwnd].parent = op.before[op.hwnd].parent
     /\ win[op.hwnd].style = op.before[op.hwnd].style
     /\ win[op.hwnd].exStyle = op.before[op.hwnd].exStyle
     /\ (prev.name = "show" /\ prev.hwnd = op.hwnd /\ ~IsWindowVisible(op.before, op.hwnd))
          => ~IsWindowVisible(win, op.hwnd)

HandleOps == {"show", "resize", "move", "detach", "info"}

\* C21: show/hide, resize, move, detach and queryWindowInfo on a handle that
\* is not a live window return success=false with "Invalid window handle"
\* after the liveness check alone, leaving every window as it was; and a move
\* whose read of the current rectangle fails returns failure without a
\* repositioning call, the rectangle unchanged.
C21_InvalidHandle ==
  /\ (pc = "idle" /\ op.name \in HandleOps /\ ~result.threw /\ ~IsWindow(op.before, op.hwnd))
     => /\ result.success = "false"
        /\ result.error = <<"Invalid window handle">>
        /\ log = <<"IsWindow">>
        /\ (~op.touched => win = op.before)
  /\ (Returned("move") /\ op.rectErr \notin {-1, 0})
     => /\ result.success = "false"
        /\ result.error = <<"Failed to get window size: ", GetLastErrorString(op.rectErr)>>
        /\ Mutations(log) = {}
        /\ op.hwnd \in Hwnds /\ win[op.hwnd].rect = op.before[op.hwnd].rect

\* showWindow on a window its owner has destroyed.
C21_Witness ==
  /\ JustReturned("show")
  /\ op.hwnd \in Hwnds /\ ~op.before[op.hwnd].live
  /\ result.error = <<"Invalid window handle">>

\* C22: queryWindowInfo on a window that stays live returns success=true with
\* the window's title and with no handle open; the executable name is the last
\* component of the owning process's module path when the process was opened
\* and the path read, the handle then being closed by the last platform call,
\* and "Unknown" when the process could not be opened or the path not read.
C22_InfoOfLiveWindow ==
  (JustReturned("info") /\ IsWindow(win, op.hwnd))
  => LET path == proc[win[op.hwnd].pid].path
     IN /\ result.success = "true"
        /\ result.error = <<>>
        /\ result.title = win[op.hwnd].title
        /\ held = {}
        /\ win[op.hwnd] = op.before[op.hwnd]
        /\ op.pid = win[op.hwnd].pid
        /\ IF op.openErr = 0 /\ op.coop
             THEN /\ result.processName = <<path[Len(path)]>>
                  /\ log[Len(log)] = "CloseHandle"
                  /\ CallsOf(log, "OpenProcess") # {}
             ELSE /\ result.processName = <<"Unknown">>
                  /\ (op.openErr # 0 => CallsOf(log, "CloseHandle") = {})
                  /\ (op.openErr = 0 => log[Len(log)] = "CloseHandle")

\* The name is cut out of a path with directories.
C22_Witness ==
  /\ JustReturned("info") /\ IsWindow(win, op.hwnd)
  /\ Len(proc[op.pid].path) > 1
  /\ result.processName = <<"app.exe">>

\* C23: showWindow(hwnd, flag) on a live window returns success=true, leaves
\* the window visible exactly if flag, whether it was visible or hidden before,
\* and changes nothing else of the window.
C23_ShowSetsVisibility ==
  (JustReturned("show") /\ IsWindow(op.before, op.hwnd) /\ IsWindow(win, op.hwnd))
  => /\ result.success = "true"
     /\ IsWindowVisible(win, op.hwnd) = op.show
     /\ win[op.hwnd] = [op.before[op.hwnd] EXCEPT !.style = win[op.hwnd].style]
     /\ win[op.hwnd].style \ {"VISIBLE"} = op.before[op.hwnd].style \ {"VISIBLE"}

\* embed returned from the exit of its reparent step.
ReparentExit == Returned("embed") /\ log = SubSeq(EmbedProtocol, 1, 5) /\ result.success = "false"

\* C24: a reparent that succeeded with a previous parent of none is never
\* reported as failed by embed or by detach, whatever last-error code earlier
\* calls left, and a reparent that failed is never reported as success by
\* detach.
C24_ReparentOutcome ==
  /\ (Returned("embed") /\ op.reparentErr = 0 /\ op.oldParent = NULL) => ~ReparentExit
  /\ (Returned("detach") /\ op.reparentErr = 0 /\ op.oldParent = NULL) => result.success = "true"
  /\ (Returned("detach") /\ op.reparentErr > 0) => result.success = "false"

\* C25: a second successful embed of a cooperative window, with the request of
\* the first, leaves the style bits and the parent the first one left; a window
\* without a caption before the first has no caption after the second.
C25_EmbedIdempotent ==
  (/\ JustReturned("embed") /\ op.coop /\ result.success = "true"
   /\ prev.name = "embed" /\ prev.coop /\ prev.success = "true"
   /\ prev.hwnd = op.hwnd /\ prev.parent = op.parent /\ op.parent = Container)
  => /\ win[op.hwnd].style = op.before[op.hwnd].style
     /\ win[op.hwnd].exStyle = op.before[op.hwnd].exStyle
     /\ win[op.hwnd].parent = op.before[op.hwnd].parent
     /\ (prev.before[op.hwnd].style \cap WS_CAPTION = {}
           => ~(WS_CAPTION \subseteq win[op.hwnd].style))

====
